---- MODULE Spec2Model ----
(***************************************************************************)
(* FlaskInfluxDBResponseLog: the before_request / after_request hooks that *)
(* init_app installs, the MeasurementResponseLog series helper they share, *)
(* and the error_write callback.                                           *)
(*                                                                         *)
(* Python str values are TLA+ strings, bytes values are sequences of byte  *)
(* values, a list is a sequence.  A Python exception that leaves a         *)
(* function is the string naming its class.                                *)
(***************************************************************************)
EXTENDS Integers, Sequences, FiniteSets, TLC

\* Python's None object (no str value of the model equals it).
None == "None"

\* ------------------------------------------------------------------ bounds
\* Requests served in a run of the one-worker workload that draws requests,
\* responses and configurations from the full input sets (Init).
MaxRequests == 1
\* Requests served one after another by one worker (InitSequence).
MaxSequence == 3
\* Worker threads and requests served in the threaded workload (InitThreads).
NumThreads == 2
MaxThreadRequests == 2

\* ------------------------------------------------- bytes.decode('utf-8')
\* The decoder's validity check, lead byte by lead byte (RFC 3629 table).
RECURSIVE Utf8Valid(_)
Utf8Valid(b) ==
    IF b = <<>> THEN TRUE
    ELSE LET c == Head(b)
             n == Len(b)
             Cont(i) == i <= n /\ b[i] >= 128 /\ b[i] <= 191
             Rest(k) == IF k > n THEN <<>> ELSE SubSeq(b, k, n)
         IN  IF c < 128 THEN Utf8Valid(Tail(b))
             ELSE IF c >= 194 /\ c <= 223
                  THEN Cont(2) /\ Utf8Valid(Rest(3))
             ELSE IF c >= 224 /\ c <= 239
                  THEN /\ Cont(2) /\ Cont(3)
                       /\ (c = 224 => b[2] >= 160)
                       /\ (c = 237 => b[2] <= 159)
                       /\ Utf8Valid(Rest(4))
             ELSE IF c >= 240 /\ c <= 244
                  THEN /\ Cont(2) /\ Cont(3) /\ Cont(4)
                       /\ (c = 240 => b[2] >= 144)
                       /\ (c = 244 => b[2] <= 143)
                       /\ Utf8Valid(Rest(5))
             ELSE FALSE

\* The byte strings clients send, and the text each valid one decodes to.
BytesEmpty   == <<>>
BytesJsonA   == <<123, 34, 97, 34, 58, 32, 49, 125>>      \* {"a": 1}
BytesHello   == <<104, 105>>                              \* hi
BytesBadUtf8 == <<104, 195>>                              \* h, then a cut 2-byte sequence
BytesQuery   == <<97, 61, 49>>                            \* a=1
BytesBadQuery == <<97, 61, 255>>                          \* a=, then byte 0xFF

TextOf(b) ==
    CASE b = BytesEmpty -> ""
      [] b = BytesJsonA -> "{\"a\": 1}"
      [] b = BytesHello -> "hi"
      [] b = BytesQuery -> "a=1"

\* bytes.decode('utf-8'): the text, or UnicodeDecodeError raised.
Utf8Decode(b) ==
    IF Utf8Valid(b) THEN [raised |-> None, value |-> TextOf(b)]
    ELSE [raised |-> "UnicodeDecodeError", value |-> None]

\* ------------------------------------------------------------------ json
\* Parsed JSON values: an object is its ordered items, each value a string
\* or an integer; JSON null is Python's None.
JObject(items) == [type |-> "dict", items |-> items]
JStr(s) == [type |-> "str", s |-> s]
JInt(i) == [type |-> "int", i |-> i]
JNone == [type |-> "NoneType"]

\* json.loads(text): the value, or JSONDecodeError raised.
JsonLoads(text) ==
    CASE text = "{\"a\": 1}" ->
            [raised |-> None, value |-> JObject(<< <<"a", JInt(1)>> >>)]
      [] text = "{\"status\": \"ok\"}" ->
            [raised |-> None, value |-> JObject(<< <<"status", JStr("ok")>> >>)]
      [] text = "null" -> [raised |-> None, value |-> JNone]
      [] OTHER -> [raised |-> "JSONDecodeError", value |-> JNone]

\* json.dumps(value, separators=(',', ':')): no space after ',' or ':'.
RECURSIVE JsonDumpsItems(_)
JsonDumps(v) ==
    CASE v.type = "NoneType" -> "null"
      [] v.type = "str" -> "\"" \o v.s \o "\""
      [] v.type = "int" -> ToString(v.i)
      [] v.type = "dict" -> "{" \o JsonDumpsItems(v.items) \o "}"
JsonDumpsItems(items) ==
    IF items = <<>> THEN ""
    ELSE "\"" \o items[1][1] \o "\":" \o JsonDumps(items[1][2])
         \o (IF Len(items) > 1 THEN "," ELSE "")
         \o JsonDumpsItems(Tail(items))

\* ------------------------------------------------------------- init_app
PyNone == [type |-> "NoneType", value |-> <<>>]
PyList(xs) == [type |-> "list", value |-> xs]
PyTuple(xs) == [type |-> "tuple", value |-> xs]

\* status_code_only: the configured value when it is a list, else [].
StatusCodeOnly(configured) ==
    IF configured.type # "list" THEN <<>> ELSE configured.value

\* filter_status_code: there is at least one filter on status codes.
FilterStatusCode(only) == Len(only) > 0

\* measurement: the configured name, 'response_log' in place of ''.
Measurement(configured) ==
    IF configured = "" THEN "response_log" ELSE configured

\* --------------------------------------------------------- after_request
InList(x, xs) == \E i \in 1..Len(xs) : xs[i] = x

\* A filter that lets every status code through.
LogResponseAlways(filter, status, only) == TRUE

\* log_response, from the filter flag, the status code and the list.
LogResponse(filter, status, only) ==
    IF filter = FALSE THEN TRUE
    ELSE (IF ~InList(status, only) THEN FALSE ELSE TRUE)

\* {header[0]: header[1] for header in headers if len(header) == 2}: a dict
\* as its items in insertion order; a repeated key keeps its place and takes
\* the later value.
RECURSIVE HeadersJs(_)
HeadersJs(headers) ==
    IF headers = <<>> THEN <<>>
    ELSE LET n == Len(headers)
             before == HeadersJs(SubSeq(headers, 1, n - 1))
             h == headers[n]
         IN  IF Len(h) # 2 THEN before
             ELSE IF \E i \in 1..Len(before) : before[i][1] = h[1]
                  THEN [i \in 1..Len(before) |->
                          IF before[i][1] = h[1] THEN h ELSE before[i]]
                  ELSE Append(before, h)

JsonExpected(headers_js) ==
    \E i \in 1..Len(headers_js) :
        headers_js[i][1] = "Content-Type" /\ headers_js[i][2] = "application/json"

\* request.get_json(silent=True): the parsed body, None when it does not
\* parse (undecodable bytes included).
RequestGetJson(data) ==
    IF ~Utf8Valid(data) THEN JNone ELSE JsonLoads(TextOf(data)).value

\* payload (lines 160-172).  json.dumps raises no JSONDecodeError and
\* UnicodeDecodeError is not a UnicodeEncodeError, so neither handler runs.
Payload(json_expected, data) ==
    IF json_expected
    THEN LET payload == RequestGetJson(data)
         IN  IF payload.type # "NoneType"
             THEN [raised |-> None, value |-> JsonDumps(payload)]
             ELSE [raised |-> None, value |-> None]
    ELSE Utf8Decode(data)

\* response.get_data(as_text=True), RuntimeError handled (lines 177-181).
\* A response body is its text, or None for a body in passthrough mode.
ResponseGetData(body) == IF body = None THEN "" ELSE body

\* A handler that empties the text, as the request side's handlers do.
ResponseDataEmptied(content_type, text) ==
    IF content_type = "application/json"
    THEN LET parsed == JsonLoads(text)
         IN  IF parsed.raised = None THEN JsonDumps(parsed.value) ELSE ""
    ELSE text

\* response_data (lines 183-187).
ResponseData(content_type, text) ==
    IF content_type = "application/json"
    THEN LET parsed == JsonLoads(text)
         IN  IF parsed.raised = None THEN JsonDumps(parsed.value) ELSE text
    ELSE text

\* headers_data (lines 189-192).
HeadersData(headers_js) ==
    JsonDumps(JObject([i \in 1..Len(headers_js) |->
                         <<headers_js[i][1], JStr(headers_js[i][2])>>]))

\* query_string (lines 195-198): the handler names UnicodeEncodeError.
QueryString(raw) == Utf8Decode(raw)

\* ---------------------------------------------- MeasurementResponseLog
\* influxdb.SeriesHelper keeps the points of every instance made since the
\* last successful commit in one class attribute, _datapoints; the class is
\* made once by init_app, so every request of the application shares it.

\* SeriesHelper.__init__: the point is filed under
\* series_name.format(**kw), which a series_name of None cannot do.
SeriesHelperInit(series_name, datapoints, point) ==
    IF series_name = None
    THEN [raised |-> "AttributeError", datapoints |-> datapoints]
    ELSE [raised |-> None, datapoints |-> Append(datapoints, point)]

\* SeriesHelper._json_body_: every point held, under the series name (the
\* split of a point into tags and fields is left out).
JsonBody(series_name, datapoints) ==
    [i \in 1..Len(datapoints) |->
        [measurement |-> series_name, point |-> datapoints[i]]]

\* SeriesHelper._reset_
Reset(datapoints) == <<>>

\* ------------------------------------------------------ _error_write_raise
\* An _error_write_raise that drops the error.
ErrorWriteRaiseDropped(callback, error) == <<>>

\* The callbacks to run for an error: the registered one, if any.
ErrorWriteRaise(callback, error) ==
    IF callback # None THEN << [callback |-> callback, error |-> error] >>
    ELSE <<>>

\* ---------------------------------------------------------------- inputs
Headers ==
    { << <<"Content-Type", "application/json">> >>,
      << <<"Host", "localhost">>, <<"Content-Type", "text/plain">> >> }

FullPath(query) == IF query = BytesQuery THEN "/check?a=1" ELSE "/check?a=\\ufffd"

RequestView(headers, data, query) ==
    [method |-> IF data = BytesEmpty THEN "GET" ELSE "POST",
     path |-> "/check", full_path |-> FullPath(query),
     remote_addr |-> "127.0.0.1",
     headers |-> headers, data |-> data, query_string |-> query]

ResponseView(status, content_type, body) ==
    [status_code |-> status, content_type |-> content_type, body |-> body]

StatusCodes == {200, 404}
SinkErrors == {"ConnectionError", "InfluxDBClientError"}
Callbacks == {"error_write"}

\* What the clients send and the views answer under each workload.
Requests(w) ==
    IF w = "serial"
    THEN { RequestView(h, d, q) :
             h \in Headers,
             d \in {BytesEmpty, BytesJsonA, BytesHello, BytesBadUtf8},
             q \in {BytesQuery, BytesBadQuery} }
    ELSE IF w = "sequence"
    THEN { RequestView(<<>>, BytesEmpty, BytesQuery),
           RequestView(<<>>, BytesEmpty, BytesBadQuery) }
    ELSE { RequestView(<<>>, BytesEmpty, BytesQuery) }

Responses(w) ==
    IF w = "serial"
    THEN { ResponseView(s, "application/json", b) :
             s \in StatusCodes, b \in {"{\"status\": \"ok\"}", "oops", None} }
         \cup { ResponseView(s, "text/html", "oops") : s \in StatusCodes }
    ELSE { ResponseView(s, "application/json", "{\"status\": \"ok\"}") :
             s \in StatusCodes }

Workers(w) == IF w = "threaded" THEN 1..NumThreads ELSE {1}
Limit(w) ==
    CASE w = "serial" -> MaxRequests
      [] w = "sequence" -> MaxSequence
      [] w = "threaded" -> MaxThreadRequests
Threads == 1..NumThreads

\* ----------------------------------------------------------------- state
VARIABLES
    workload,               \* who calls the application: "serial", "sequence", "threaded"
    config,                 \* app.config
    status_code_only,       \* init_app's closure variables
    filter_status_code,
    measurement,
    namespace,
    error_write_callback,   \* self.__error_write_callback__
    datapoints,             \* MeasurementResponseLog._datapoints
    writes,                 \* the calls of client.write_points, in order
    notified,               \* the calls of the error callback, in order
    clock,                  \* datetime.utcnow(), one tick per request
    pc,                     \* where each worker thread is
    g_start_time,           \* g.start_time of each thread's request
    request,                \* flask.request of each thread
    response,               \* the response given to after_request
    locals,                 \* after_request's local variables
    raised,                 \* the exception that left the hook, or None
    returned                \* the value after_request returned

vars == <<workload, config, status_code_only, filter_status_code, measurement,
          namespace, error_write_callback, datapoints, writes, notified, clock,
          pc, g_start_time, request, response, locals, raised, returned>>

shared == <<workload, config, status_code_only, filter_status_code,
            measurement, namespace>>

NoLocals ==
    [log_response |-> FALSE, headers_js |-> <<>>, json_expected |-> FALSE,
     response_time |-> 0, payload |-> None, response_data |-> None,
     headers_data |-> None, query_string |-> None, points |-> <<>>,
     error |-> None]

NoRequest == RequestView(<<>>, BytesEmpty, BytesQuery)
NoResponse == ResponseView(0, None, None)

Configs ==
    [RESPONSE_LOG_STATUS_CODE_ONLY :
        {PyNone, PyTuple(<<404>>), PyList(<<>>), PyList(<<404>>)},
     RESPONSE_LOG_INFLUXDB_MEASUREMENT : {None, "", "api_log"},
     RESPONSE_LOG_INFLUXDB_NAMESPACE : {"shop"}]

InitApp(w, c) ==
    /\ workload = w
    /\ config = c
    /\ status_code_only = StatusCodeOnly(c.RESPONSE_LOG_STATUS_CODE_ONLY)
    /\ filter_status_code =
          FilterStatusCode(StatusCodeOnly(c.RESPONSE_LOG_STATUS_CODE_ONLY))
    /\ measurement = Measurement(c.RESPONSE_LOG_INFLUXDB_MEASUREMENT)
    /\ namespace = c.RESPONSE_LOG_INFLUXDB_NAMESPACE
    /\ error_write_callback = None
    /\ datapoints = <<>>
    /\ writes = <<>>
    /\ notified = <<>>
    /\ clock = 0
    /\ pc = [p \in Threads |-> "idle"]
    /\ g_start_time = [p \in Threads |-> 0]
    /\ request = [p \in Threads |-> NoRequest]
    /\ response = [p \in Threads |-> NoResponse]
    /\ locals = [p \in Threads |-> NoLocals]
    /\ raised = [p \in Threads |-> None]
    /\ returned = [p \in Threads |-> NoResponse]

Init == \E c \in Configs : InitApp("serial", c)

InitSequence ==
    \E c \in Configs :
        /\ c.RESPONSE_LOG_STATUS_CODE_ONLY \in {PyList(<<>>), PyList(<<404>>)}
        /\ c.RESPONSE_LOG_INFLUXDB_MEASUREMENT = "api_log"
        /\ InitApp("sequence", c)

InitThreads ==
    \E c \in Configs :
        /\ c.RESPONSE_LOG_STATUS_CODE_ONLY = PyList(<<404>>)
        /\ c.RESPONSE_LOG_INFLUXDB_MEASUREMENT = "api_log"
        /\ InitApp("threaded", c)

\* --------------------------------------------------------------- actions
Goto(p, label) == pc' = [pc EXCEPT ![p] = label]
SetLocal(p, new) == locals' = [locals EXCEPT ![p] = new]
Raise(p, exception) ==
    /\ pc' = [pc EXCEPT ![p] = "raised"]
    /\ raised' = [raised EXCEPT ![p] = exception]

\* error_write(f): register the callback.
ErrorWrite(f) ==
    /\ error_write_callback # f
    /\ error_write_callback' = f
    /\ UNCHANGED <<shared, datapoints, writes, notified, clock, pc,
                   g_start_time, request, response, locals, raised, returned>>

\* before_request sets g.start_time for the request that arrived at a free
\* worker, and the view function answers it.
BeforeRequest(p) ==
    /\ p \in Workers(workload)
    /\ pc[p] \in {"idle", "returned", "raised"}
    /\ clock < Limit(workload)
    /\ \E r \in Requests(workload) : request' = [request EXCEPT ![p] = r]
    /\ \E r \in Responses(workload) : response' = [response EXCEPT ![p] = r]
    /\ clock' = clock + 1
    /\ g_start_time' = [g_start_time EXCEPT ![p] = clock + 1]
    /\ returned' = [returned EXCEPT ![p] = NoResponse]
    /\ raised' = [raised EXCEPT ![p] = None]
    /\ SetLocal(p, NoLocals)
    /\ Goto(p, "after_request")
    /\ UNCHANGED <<shared, error_write_callback, datapoints, writes, notified>>

\* Lines 138-144: the status filter.
Filter(p) ==
    /\ pc[p] = "after_request"
    /\ LET log_response == LogResponse(filter_status_code,
                                       response[p].status_code, status_code_only)
       IN  /\ SetLocal(p, [locals[p] EXCEPT !.log_response = log_response])
           /\ Goto(p, IF log_response = TRUE THEN "build" ELSE "return")
    /\ UNCHANGED <<shared, error_write_callback, datapoints, writes, notified,
                   clock, g_start_time, request, response, raised, returned>>

\* Lines 145-198: the fields of the record, in the order the code computes
\* them; the first exception that no handler catches leaves the hook.
\* response_time is the clock's ticks since g.start_time.
Build(p) ==
    /\ pc[p] = "build"
    /\ LET response_time == clock - g_start_time[p]
           headers_js == HeadersJs(request[p].headers)
           json_expected == JsonExpected(headers_js)
           payload == Payload(json_expected, request[p].data)
           response_data == ResponseData(response[p].content_type,
                                         ResponseGetData(response[p].body))
           headers_data == HeadersData(headers_js)
           query_string == QueryString(request[p].query_string)
       IN  IF payload.raised # None
           THEN Raise(p, payload.raised) /\ UNCHANGED locals
           ELSE IF query_string.raised # None
           THEN /\ Raise(p, query_string.raised)
                /\ SetLocal(p, [locals[p] EXCEPT
                      !.response_time = response_time,
                      !.headers_js = headers_js,
                      !.json_expected = json_expected,
                      !.payload = payload.value,
                      !.response_data = response_data,
                      !.headers_data = headers_data])
           ELSE /\ SetLocal(p, [locals[p] EXCEPT
                      !.response_time = response_time,
                      !.headers_js = headers_js,
                      !.json_expected = json_expected,
                      !.payload = payload.value,
                      !.response_data = response_data,
                      !.headers_data = headers_data,
                      !.query_string = query_string.value])
                /\ Goto(p, "construct")
                /\ UNCHANGED raised
    /\ UNCHANGED <<shared, error_write_callback, datapoints, writes, notified,
                   clock, g_start_time, request, response, returned>>

\* The keyword arguments of lines 201-215.
Point(p) ==
    [time |-> g_start_time[p],
     namespace |-> namespace,
     path |-> request[p].path,
     method |-> request[p].method,
     remote_addr |-> request[p].remote_addr,
     full_path |-> request[p].full_path,
     payload |-> locals[p].payload,
     headers |-> locals[p].headers_data,
     status_code |-> response[p].status_code,
     query_string |-> locals[p].query_string,
     response |-> locals[p].response_data,
     response_time |-> locals[p].response_time,
     response_content_type |-> response[p].content_type]

\* Lines 201-215: MeasurementResponseLog(...).
Construct(p) ==
    /\ pc[p] = "construct"
    /\ LET made == SeriesHelperInit(measurement, datapoints, Point(p))
       IN  /\ datapoints' = made.datapoints
           /\ IF made.raised # None
              THEN Raise(p, made.raised)
              ELSE Goto(p, "commit") /\ UNCHANGED raised
    /\ UNCHANGED <<shared, error_write_callback, writes, notified, clock,
                   g_start_time, request, response, locals, returned>>

\* Line 218, MeasurementResponseLog.commit: cls._json_body_() is read, ...
CommitJsonBody(p) ==
    /\ pc[p] = "commit"
    /\ SetLocal(p, [locals[p] EXCEPT !.points = JsonBody(measurement, datapoints)])
    /\ Goto(p, "write_points")
    /\ UNCHANGED <<shared, error_write_callback, datapoints, writes, notified,
                   clock, g_start_time, request, response, raised, returned>>

\* ... client.write_points(points) stores them or raises, ...
CommitWritePoints(p) ==
    /\ pc[p] = "write_points"
    /\ \E result \in {"ok"} \cup SinkErrors :
         /\ writes' = Append(writes, [by |-> g_start_time[p],
                                      points |-> locals[p].points,
                                      result |-> result])
         /\ IF result = "ok"
            THEN Goto(p, "reset") /\ UNCHANGED locals
            ELSE /\ SetLocal(p, [locals[p] EXCEPT !.error = result])
                 /\ Goto(p, "except")
    /\ UNCHANGED <<shared, error_write_callback, datapoints, notified, clock,
                   g_start_time, request, response, raised, returned>>

\* ... and after a write that returned, cls._reset_() empties _datapoints.
CommitReset(p) ==
    /\ pc[p] = "reset"
    /\ datapoints' = Reset(datapoints)
    /\ Goto(p, "return")
    /\ UNCHANGED <<shared, error_write_callback, writes, notified, clock,
                   g_start_time, request, response, locals, raised, returned>>

\* Lines 219-221: the handler of the commit's exception.
Except(p) ==
    /\ pc[p] = "except"
    /\ notified' = notified \o
          [i \in 1..Len(ErrorWriteRaise(error_write_callback, locals[p].error)) |->
              [by |-> g_start_time[p],
               callback |-> ErrorWriteRaise(error_write_callback, locals[p].error)[i].callback,
               error |-> ErrorWriteRaise(error_write_callback, locals[p].error)[i].error]]
    /\ Goto(p, "return")
    /\ UNCHANGED <<shared, error_write_callback, datapoints, writes, clock,
                   g_start_time, request, response, locals, raised, returned>>

\* Line 223: return response.
Return(p) ==
    /\ pc[p] = "return"
    /\ returned' = [returned EXCEPT ![p] = response[p]]
    /\ Goto(p, "returned")
    /\ UNCHANGED <<shared, error_write_callback, datapoints, writes, notified,
                   clock, g_start_time, request, response, locals, raised>>

Next ==
    \/ \E f \in Callbacks : ErrorWrite(f)
    \/ \E p \in Threads : BeforeRequest(p)
    \/ \E p \in Threads : Filter(p)
    \/ \E p \in Threads : Build(p)
    \/ \E p \in Threads : Construct(p)
    \/ \E p \in Threads : CommitJsonBody(p)
    \/ \E p \in Threads : CommitWritePoints(p)
    \/ \E p \in Threads : CommitReset(p)
    \/ \E p \in Threads : Except(p)
    \/ \E p \in Threads : Return(p)

Spec == Init /\ [][Next]_vars
SpecSequence == InitSequence /\ [][Next]_vars
SpecThreads == InitThreads /\ [][Next]_vars

\* ================================================================ claims
Ended(p) == pc[p] \in {"returned", "raised"}

\* The calls of write_points made by the request that started at time t.
Attempts(t) == {i \in 1..Len(writes) : writes[i].by = t}

\* The record fields of p's request have been computed.
Built(p) == locals[p].response_data # None

PassesFilter(p) ==
    status_code_only = <<>> \/ InList(response[p].status_code, status_code_only)

\* ---------------------------------------------------------------- C1
\* C1: a request whose hook has ended made exactly one commit attempt when
\* the allowlist is empty or holds its status code, and none otherwise.
C1_CommitAttemptsFollowFilter ==
    \A p \in Threads :
        Ended(p) =>
            Cardinality(Attempts(g_start_time[p])) =
                (IF PassesFilter(p) THEN 1 ELSE 0)

\* ---------------------------------------------------------------- C2
\* C2: no exception leaves after_request, and what it returns is the
\* response it was given.
C2_NoErrorLeavesTheHook ==
    \A p \in Threads :
        /\ pc[p] # "raised"
        /\ pc[p] = "returned" => returned[p] = response[p]

\* ---------------------------------------------------------------- C3
\* C3: every call of the callback belongs to one failed commit attempt and
\* carries the error that attempt raised, no attempt has two calls (so a
\* request whose commit succeeded or that the filter dropped has none), and
\* with a callback registered the handler of a failed commit calls it once.
C3_CallsMatchFailures ==
    \A i \in 1..Len(notified) :
        /\ \E j \in 1..Len(writes) :
              /\ writes[j].by = notified[i].by
              /\ writes[j].result # "ok"
              /\ writes[j].result = notified[i].error
        /\ \A k \in 1..Len(notified) : notified[k].by = notified[i].by => k = i

C3_HandlerCallsOnce ==
    \A p \in Threads :
        (pc[p] = "except" /\ pc'[p] # "except") =>
            IF error_write_callback # None
            THEN notified' = Append(notified,
                     [by |-> g_start_time[p], callback |-> error_write_callback,
                      error |-> writes[CHOOSE j \in Attempts(g_start_time[p]) : TRUE].result])
            ELSE notified' = notified

C3_CallbackOncePerFailedCommit ==
    [](C3_CallsMatchFailures) /\ [][C3_HandlerCallsOnce]_vars

\* A failed commit was reported, another request's commit succeeded, and the
\* last request was dropped by the filter.
C3_Witness ==
    /\ Len(notified) = 1
    /\ \E j \in 1..Len(writes) :
          writes[j].result = "ok" /\ writes[j].by # notified[1].by
    /\ \A p \in Threads : pc[p] \in {"idle", "returned"}
    /\ \E p \in Threads : pc[p] = "returned" /\ ~locals[p].log_response

\* ---------------------------------------------------------------- C4
\* C4: no record is handed to write_points twice: a record that was part of
\* one call, failed or not, is in no later call.
C4_RecordWrittenAtMostOnce ==
    \A i, j \in 1..Len(writes) :
        \A m \in 1..Len(writes[i].points), n \in 1..Len(writes[j].points) :
            writes[i].points[m].point.time = writes[j].points[n].point.time
                => (i = j /\ m = n)

\* ---------------------------------------------------------------- C5
\* C5: a request that passes the filter and whose query string is not valid
\* UTF-8 (its body decodable, a measurement name set) ends with the hook
\* returning, query_string '' and one commit attempt.
C5_BadQueryStringIsEmptied ==
    \A p \in Threads :
        ( /\ Ended(p)
          /\ PassesFilter(p)
          /\ ~Utf8Valid(request[p].query_string)
          /\ Utf8Valid(request[p].data)
          /\ measurement # None )
        => /\ pc[p] = "returned"
           /\ locals[p].query_string = ""
           /\ Cardinality(Attempts(g_start_time[p])) = 1

\* ---------------------------------------------------------------- C6
\* C6: the payload of a built record is a string, and is '' when the request
\* declared application/json and its body does not parse.
C6_PayloadIsAString ==
    \A p \in Threads :
        (Built(p) /\ pc[p] # "raised") =>
            /\ locals[p].payload # None
            /\ (JsonExpected(HeadersJs(request[p].headers))
                /\ RequestGetJson(request[p].data) = JNone)
               => locals[p].payload = ""

\* ---------------------------------------------------------------- C7
JsonResponseUnparsed(p) ==
    /\ response[p].content_type = "application/json"
    /\ response[p].body # None
    /\ JsonLoads(response[p].body).raised # None

\* C7: for an application/json response whose text does not parse, the
\* response field is that text unchanged in the locals, in the record made
\* and in the points written, and the parse failure does not end the hook:
\* a request that passed the filter returns after one commit attempt, and an
\* exception leaves the hook only for an undecodable body or query string
\* or a missing measurement name.
C7_ResponsePassThrough ==
    \A p \in Threads :
        JsonResponseUnparsed(p) =>
            /\ Built(p) => locals[p].response_data = response[p].body
            /\ pc[p] = "commit" =>
                  datapoints[Len(datapoints)].response = response[p].body
            /\ \A i \in Attempts(g_start_time[p]) :
                  writes[i].points[Len(writes[i].points)].point.response
                      = response[p].body
            /\ pc[p] = "raised" =>
                  /\ raised[p] # "JSONDecodeError"
                  /\ \/ ~Utf8Valid(request[p].data)
                     \/ ~Utf8Valid(request[p].query_string)
                     \/ measurement = None
            /\ (pc[p] = "returned" /\ PassesFilter(p)) =>
                  Cardinality(Attempts(g_start_time[p])) = 1

\* The unparsed text "oops" went into a commit attempt and the hook returned.
C7_Witness ==
    \E p \in Threads :
        /\ JsonResponseUnparsed(p)
        /\ pc[p] = "returned"
        /\ \E i \in Attempts(g_start_time[p]) :
              writes[i].points[1].point.response = "oops"

\* ---------------------------------------------------------------- C8
\* C8: when a record is made or written, the series name is the configured
\* name, 'response_log' when the option is absent or empty, and never None.
ClaimedMeasurement ==
    IF config.RESPONSE_LOG_INFLUXDB_MEASUREMENT \in {None, ""}
    THEN "response_log"
    ELSE config.RESPONSE_LOG_INFLUXDB_MEASUREMENT

C8_MeasurementDefault ==
    /\ (\E p \in Threads : pc[p] = "construct") =>
          (measurement # None /\ measurement = ClaimedMeasurement)
    /\ \A i \in 1..Len(writes) : \A m \in 1..Len(writes[i].points) :
          writes[i].points[m].measurement = ClaimedMeasurement

\* ---------------------------------------------------------------- C9
\* C9: while no write has failed, each call of write_points hands over
\* exactly the one record of the request that makes the call.
C9_CommitWritesOwnRecord ==
    (\A i \in 1..Len(writes) : writes[i].result = "ok") =>
        \A i \in 1..Len(writes) :
            /\ Len(writes[i].points) = 1
            /\ writes[i].points[1].point.time = writes[i].by

\* --------------------------------------------------------------- C10
\* C10, as stated: once the filter has decided, the record has been built,
\* for a dropped request too.
C10_BuiltBeforeFiltered ==
    \A p \in Threads :
        pc[p] \notin {"idle", "after_request"} => Built(p)

\* C10, amended: the filter decides first; a record is built only for a
\* request that passed it; a record is made and a commit attempted only
\* after the whole record was built; a request makes at most one attempt;
\* each step of a request moves it along filter, build, record, commit and
\* return, and an ended request changes no more.
C10_FilterFirst ==
    \A p \in Threads :
        /\ Built(p) => (locals[p].log_response /\ PassesFilter(p))
        /\ pc[p] \in {"commit", "write_points", "reset", "except"} =>
              (Built(p) /\ locals[p].query_string # None)
        /\ Attempts(g_start_time[p]) # {} =>
              /\ Built(p) /\ locals[p].query_string # None
              /\ pc[p] \in {"reset", "except", "return", "returned"}
        /\ Cardinality(Attempts(g_start_time[p])) <= 1
        /\ (pc[p] \in {"return", "returned"} /\ ~locals[p].log_response) =>
              (~Built(p) /\ Attempts(g_start_time[p]) = {})

StepOrder ==
    {<<"after_request", "build">>, <<"after_request", "return">>,
     <<"build", "construct">>, <<"build", "raised">>,
     <<"construct", "commit">>, <<"construct", "raised">>,
     <<"commit", "write_points">>,
     <<"write_points", "reset">>, <<"write_points", "except">>,
     <<"reset", "return">>, <<"except", "return">>,
     <<"return", "returned">>}

C10_StepsInOrder ==
    \A p \in Threads :
        IF g_start_time'[p] = g_start_time[p]
        THEN pc'[p] = pc[p] \/ <<pc[p], pc'[p]>> \in StepOrder
        ELSE Ended(p) \/ pc[p] = "idle"

C10_FilterThenBuildThenCommit ==
    [](C10_FilterFirst) /\ [][C10_StepsInOrder]_vars

\* With an allowlist set, a request passed the filter, was built and
\* committed, and the hook returned.
C10_Witness ==
    \E p \in Threads :
        /\ filter_status_code
        /\ pc[p] = "returned"
        /\ Built(p)
        /\ Attempts(g_start_time[p]) # {}

====
